---- MODULE Spec2Model ----
(***************************************************************************)
(* A model of the python-raytracer rendering core:                         *)
(*   - the render drivers of camera.py (Camera.render to PPM, the serial   *)
(*     _save_image_to_png and the chunked multiprocessing                  *)
(*     save_image_to_png with process_chunk run by a worker pool),         *)
(*   - Sphere.hit / World.hit of hittable.py over binary floating point    *)
(*     with a reduced significand,                                         *)
(*   - the recursion of Camera.ray_color,                                  *)
(*   - the constructors of Sphere, Metal and Camera.                       *)
(* Each part has its own specification (SpecRender, SpecHit, SpecColor,    *)
(* SpecCtor) over the variables it uses; the other variables stay at their *)
(* idle values.                                                            *)
(***************************************************************************)
EXTENDS Integers, Sequences, FiniteSets, TLC

VARIABLES
    \* ---- render drivers (camera.py) ----
    entry,          \* which entry point the run drives
    image_width,    \* Camera.image_width
    image_height,   \* Camera.image_height
    cpu_count,      \* multiprocessing.cpu_count()
    pc,             \* position of the driver
    err,            \* the exception that ended the render, "" if none
    k,              \* index of the next pixel of a serial loop (raster order)
    chunks,         \* the list `chunks` of save_image_to_png
    nextTask,       \* index (1-based) of the next chunk the pool hands out
    running,        \* chunks a pool worker is processing
    results,        \* chunk results in arrival order; consumed by the merge loop
    color_array,    \* framebuffer of save_image_to_png
    serial_array,   \* framebuffer of _save_image_to_png
    writes,         \* history: how often the merge wrote each framebuffer entry
    reordered,      \* history: some result arrived before that of an earlier chunk
    evaluated,      \* history: pixels evaluated so far, per render
    files,          \* the output files: state and number of pixels they hold
    \* ---- scene queries (hittable.py) ----
    world,          \* World.objects
    ray,            \* the ray of the query
    t_range,        \* the caller's Interval object
    last_call,      \* the call that returned last: <<"add">>, <<"sphere", i>>, ...
    record,         \* what that call returned
    \* ---- Camera.ray_color (camera.py) ----
    max_depth,      \* Camera.max_depth
    stack,          \* the active ray_color frames, the innermost last
    queries,        \* history: world.hit calls of the evaluation so far
    color_pc,       \* position of the evaluation
    returned,       \* the last return of a ray_color frame
    \* ---- constructors (hittable.py, material.py, camera.py) ----
    sphere,         \* the Sphere constructed last, None before
    metal,          \* the Metal constructed last, None before
    camera,         \* the Camera constructed last, None before
    raised          \* the exception of the last constructor call, "" if none

renderVars == <<entry, image_width, image_height, cpu_count, pc, err, k, chunks,
                nextTask, running, results, color_array, serial_array, writes,
                reordered, evaluated, files>>

hitVars == <<world, ray, t_range, last_call, record>>

colorVars == <<max_depth, stack, queries, color_pc, returned>>

ctorVars == <<sphere, metal, camera, raised>>

\* the variables the render drivers leave alone
notRender == <<hitVars, colorVars, ctorVars>>

\* the variables the scene queries leave alone
notHit == <<renderVars, colorVars, ctorVars>>

\* the variables ray_color leaves alone
notColor == <<renderVars, hitVars, ctorVars>>

\* the variables the constructors leave alone
notCtor == <<renderVars, hitVars, colorVars>>

vars == <<renderVars, hitVars, colorVars, ctorVars>>

Min(a, b) == IF a <= b THEN a ELSE b

(***************************************************************************)
(* Bounds of the render model.                                             *)
(***************************************************************************)
MaxWidth == 5

MaxHeight == 5

MaxCores == 2

\* with two or more workers only images of at most this many pixels are explored
MaxParallelPixels == 16

\* num_chunks = multiprocessing.cpu_count() * 8
ChunksPerCore == 8

(***************************************************************************)
(* Pure helpers of the render drivers.                                     *)
(***************************************************************************)

\* pixels = [(j, i) for j in range(image_height) for i in range(image_width)]
Pixels(w, h) == [n \in 1..(w * h) |-> <<(n - 1) \div w, (n - 1) % w>>]

Grid(w, h) == (0..(h - 1)) \X (0..(w - 1))

\* np.zeros((image_height, image_width, 3), dtype=np.uint8)
Zeros(w, h) == [p \in Grid(w, h) |-> 0]

NumChunks(cores) == cores * ChunksPerCore

ChunkSize(pixels, num_chunks) == Len(pixels) \div num_chunks

\* a mutant of Slice: the slice takes one element too many
SliceInclusive(s, lo, hi) == SubSeq(s, lo + 1, Min(hi + 1, Len(s)))

\* Python's s[lo:hi] for 0 <= lo <= hi: the end is clamped to len(s)
Slice(s, lo, hi) == SubSeq(s, lo + 1, Min(hi, Len(s)))

\* list(range(0, stop, step)) for step > 0
RangeStep(stop, step) == [m \in 1..((stop + step - 1) \div step) |-> (m - 1) * step]

\* chunks = [pixels[i : i + chunk_size] for i in range(0, len(pixels), chunk_size)]
BuildChunks(pixels, chunk_size) ==
    LET starts == RangeStep(Len(pixels), chunk_size)
    IN  [m \in 1..Len(starts) |-> Slice(pixels, starts[m], starts[m] + chunk_size)]

\* The 8-bit colour a pixel evaluates to (samples averaged, gamma corrected,
\* clipped).  The light transport is not part of the render model: the colour
\* is a fixed function of the coordinate, as under a deterministic sampler.
PixelColor(p) == 1 + ((5 * p[1] + 3 * p[2]) % 255)

\* process_chunk: the list of ((j, i), colour) of a chunk, in chunk order
ProcessChunk(chunk) == [m \in 1..Len(chunk) |-> <<chunk[m], PixelColor(chunk[m])>>]

\* a mutant of Store: the coordinate's components are swapped modulo the grid
StoreTransposed(array, p, c) ==
    [array EXCEPT ![<<p[2] % image_height, p[1] % image_width>>] = c]

\* color_array[j, i] = color
Store(array, p, c) == [array EXCEPT ![p] = c]

RECURSIVE MergeInto(_, _)
\* for (j, i), color in chunk: color_array[j, i] = color
MergeInto(array, chunk_result) ==
    IF chunk_result = <<>> THEN array
    ELSE MergeInto(Store(array, Head(chunk_result)[1], Head(chunk_result)[2]),
                   Tail(chunk_result))

RECURSIVE CountInto(_, _)
CountInto(count, chunk_result) ==
    IF chunk_result = <<>> THEN count
    ELSE CountInto([count EXCEPT ![Head(chunk_result)[1]] = @ + 1], Tail(chunk_result))

NPixels == image_width * image_height

FileNames == {"ppm", "serial_png", "parallel_png"}

NoFiles == [f \in FileNames |-> [state |-> "absent", pixels |-> 0]]

NoneEvaluated == [f \in FileNames |-> 0]

\* the locals of an aborted call are gone
Dropped ==
    /\ chunks' = <<>>
    /\ nextTask' = 1
    /\ running' = {}
    /\ results' = <<>>
    /\ k' = 0

(***************************************************************************)
(* Initial state of a render: a constructed camera, no output yet.         *)
(***************************************************************************)
CameraReady ==
    /\ entry \in {"render", "png"}
    /\ image_width \in 1..MaxWidth
    /\ image_height \in 1..MaxHeight
    /\ cpu_count \in 1..MaxCores
    /\ (cpu_count >= 2 => image_width * image_height <= MaxParallelPixels)
    /\ pc = "start"
    /\ err = ""
    /\ k = 0
    /\ chunks = <<>>
    /\ nextTask = 1
    /\ running = {}
    /\ results = <<>>
    /\ color_array = Zeros(image_width, image_height)
    /\ serial_array = Zeros(image_width, image_height)
    /\ writes = Zeros(image_width, image_height)
    /\ reordered = FALSE
    /\ evaluated = NoneEvaluated
    /\ files = NoFiles

(***************************************************************************)
(* Camera.render: the PPM file is opened and its header written before the *)
(* first pixel is evaluated.                                               *)
(***************************************************************************)
RenderOpen ==
    /\ UNCHANGED notRender
    /\ pc = "start"
    /\ entry = "render"
    /\ files' = [files EXCEPT !["ppm"] = [state |-> "open", pixels |-> 0]]
    /\ k' = 0
    /\ pc' = "ppm_loop"
    /\ UNCHANGED <<entry, image_width, image_height, cpu_count, err, chunks, nextTask,
                   running, results, color_array, serial_array, writes, reordered, evaluated>>

\* one iteration of the pixel loop: ray_color returns, or raises
RenderPixel ==
    /\ UNCHANGED notRender
    /\ pc = "ppm_loop"
    /\ k < NPixels
    /\ \E ok \in BOOLEAN :
         IF ok
         THEN /\ files' = [files EXCEPT !["ppm"].pixels = @ + 1]
              /\ evaluated' = [evaluated EXCEPT !["ppm"] = @ + 1]
              /\ k' = k + 1
              /\ UNCHANGED <<pc, err>>
         ELSE \* the with-statement closes the file; what was written stays
              /\ files' = [files EXCEPT !["ppm"].state = "closed"]
              /\ pc' = "aborted"
              /\ err' = "pixel"
              /\ UNCHANGED <<k, evaluated>>
    /\ UNCHANGED <<entry, image_width, image_height, cpu_count, chunks, nextTask,
                   running, results, color_array, serial_array, writes, reordered>>

RenderClose ==
    /\ UNCHANGED notRender
    /\ pc = "ppm_loop"
    /\ k = NPixels
    /\ files' = [files EXCEPT !["ppm"].state = "closed"]
    /\ pc' = "done"
    /\ UNCHANGED <<entry, image_width, image_height, cpu_count, err, k, chunks,
                   nextTask, running, results, color_array, serial_array, writes, reordered,
                   evaluated>>

(***************************************************************************)
(* Camera._save_image_to_png: the serial per-pixel loop.  Under entry      *)
(* "png" the serial render runs first and the chunked render after it, on  *)
(* the same camera and scene, so that both framebuffers can be compared.   *)
(***************************************************************************)
SerialStart ==
    /\ UNCHANGED notRender
    /\ pc = "start"
    /\ entry = "png"
    /\ serial_array' = Zeros(image_width, image_height)
    /\ k' = 0
    /\ pc' = "serial_loop"
    /\ UNCHANGED <<entry, image_width, image_height, cpu_count, err, chunks, nextTask,
                   running, results, color_array, writes, reordered, evaluated, files>>

SerialPixel ==
    /\ UNCHANGED notRender
    /\ pc = "serial_loop"
    /\ k < NPixels
    /\ \E ok \in BOOLEAN :
         IF ok
         THEN LET p == Pixels(image_width, image_height)[k + 1]
              IN  /\ serial_array' = Store(serial_array, p, PixelColor(p))
                  /\ evaluated' = [evaluated EXCEPT !["serial_png"] = @ + 1]
                  /\ k' = k + 1
                  /\ UNCHANGED <<pc, err>>
         ELSE /\ pc' = "aborted"
              /\ err' = "pixel"
              /\ UNCHANGED <<k, serial_array, evaluated>>
    /\ UNCHANGED <<entry, image_width, image_height, cpu_count, chunks, nextTask,
                   running, results, color_array, writes, reordered, files>>

SerialSave ==
    /\ UNCHANGED notRender
    /\ pc = "serial_loop"
    /\ k = NPixels
    /\ files' = [files EXCEPT !["serial_png"] = [state |-> "saved", pixels |-> NPixels]]
    /\ pc' = "par_start"
    /\ UNCHANGED <<entry, image_width, image_height, cpu_count, err, k, chunks,
                   nextTask, running, results, color_array, serial_array, writes, reordered,
                   evaluated>>

(***************************************************************************)
(* Camera.save_image_to_png: chunking, the worker pool, the merge, the     *)
(* save.                                                                   *)
(***************************************************************************)

\* lines 101-111; range() raises ValueError for a step of zero
ParBuildChunks ==
    /\ UNCHANGED notRender
    /\ pc = "par_start"
    /\ LET pixels == Pixels(image_width, image_height)
           chunk_size == ChunkSize(pixels, NumChunks(cpu_count))
       IN  IF chunk_size = 0
           THEN /\ pc' = "aborted"
                /\ err' = "ValueError"
                /\ Dropped
                /\ UNCHANGED color_array
           ELSE /\ chunks' = BuildChunks(pixels, chunk_size)
                /\ color_array' = Zeros(image_width, image_height)
                /\ nextTask' = 1
                /\ running' = {}
                /\ results' = <<>>
                /\ pc' = "pool"
                /\ UNCHANGED <<err, k>>
    /\ UNCHANGED <<entry, image_width, image_height, cpu_count, serial_array, writes, reordered,
                   evaluated, files>>

\* a free worker of Pool(processes=num_cores) takes the next chunk of imap_unordered
StartChunk ==
    /\ UNCHANGED notRender
    /\ pc = "pool"
    /\ nextTask <= Len(chunks)
    /\ Cardinality(running) < cpu_count
    /\ running' = running \cup {nextTask}
    /\ nextTask' = nextTask + 1
    /\ UNCHANGED <<entry, image_width, image_height, cpu_count, pc, err, k, chunks,
                   results, color_array, serial_array, writes, reordered, evaluated, files>>

\* a worker ends process_chunk: its result arrives at the driver, or the exception
\* of a pixel does, which list(...) re-raises out of the with-block
FinishChunk ==
    /\ UNCHANGED notRender
    /\ pc = "pool"
    /\ \E c \in running : \E ok \in BOOLEAN :
         IF ok
         THEN /\ results' = Append(results, ProcessChunk(chunks[c]))
              /\ running' = running \ {c}
              /\ evaluated' = [evaluated EXCEPT !["parallel_png"] = @ + Len(chunks[c])]
              /\ reordered' = (reordered \/ \E d \in running : d < c)
              /\ UNCHANGED <<pc, err, k, chunks, nextTask>>
         ELSE /\ pc' = "aborted"
              /\ err' = "pixel"
              /\ Dropped
              /\ UNCHANGED <<evaluated, reordered>>
    /\ UNCHANGED <<entry, image_width, image_height, cpu_count, color_array,
                   serial_array, writes, files>>

\* list(...) has every result: the with-block ends
PoolComplete ==
    /\ UNCHANGED notRender
    /\ pc = "pool"
    /\ Len(results) = Len(chunks)
    /\ pc' = "merge"
    /\ UNCHANGED <<entry, image_width, image_height, cpu_count, err, k, chunks,
                   nextTask, running, results, color_array, serial_array, writes, reordered,
                   evaluated, files>>

\* one iteration of `for chunk in results`; results holds what is still to merge
MergeChunk ==
    /\ UNCHANGED notRender
    /\ pc = "merge"
    /\ results # <<>>
    /\ color_array' = MergeInto(color_array, Head(results))
    /\ writes' = CountInto(writes, Head(results))
    /\ results' = Tail(results)
    /\ UNCHANGED <<entry, image_width, image_height, cpu_count, pc, err, k, chunks,
                   nextTask, running, serial_array, reordered, evaluated, files>>

\* a mutant of SaveImage: the image is saved while results are still unmerged
SaveImageUnmerged ==
    /\ UNCHANGED notRender
    /\ pc = "merge"
    /\ files' = [files EXCEPT !["parallel_png"] = [state |-> "saved", pixels |-> NPixels]]
    /\ pc' = "done"
    /\ UNCHANGED <<entry, image_width, image_height, cpu_count, err, k, chunks,
                   nextTask, running, results, color_array, serial_array, writes, reordered,
                   evaluated>>

\* Image.fromarray(color_array).save(filename)
SaveImage ==
    /\ UNCHANGED notRender
    /\ pc = "merge"
    /\ results = <<>>
    /\ files' = [files EXCEPT !["parallel_png"] = [state |-> "saved", pixels |-> NPixels]]
    /\ pc' = "done"
    /\ UNCHANGED <<entry, image_width, image_height, cpu_count, err, k, chunks,
                   nextTask, running, results, color_array, serial_array, writes, reordered,
                   evaluated>>

NextRender ==
    \/ RenderOpen
    \/ RenderPixel
    \/ RenderClose
    \/ SerialStart
    \/ SerialPixel
    \/ SerialSave
    \/ ParBuildChunks
    \/ StartChunk
    \/ FinishChunk
    \/ PoolComplete
    \/ MergeChunk
    \/ SaveImage


(***************************************************************************)
(* Properties of the render drivers.                                       *)
(***************************************************************************)

\* the chunk list exists: the driver is past the chunking of save_image_to_png
ChunksBuilt == entry = "png" /\ pc \in {"pool", "merge", "done"}

\* how often coordinate p occurs in the chunks
RECURSIVE Occurrences(_, _)
Occurrences(p, cs) ==
    IF cs = <<>> THEN 0
    ELSE Cardinality({m \in 1..Len(Head(cs)) : Head(cs)[m] = p}) + Occurrences(p, Tail(cs))

\* C1: for every width >= 1, height >= 1 and chunk count >= 1 the chunk list is
\* built (the chunking never raises), and every coordinate of the grid lies in
\* exactly one chunk exactly once, with no coordinate outside the grid.
C1_ChunksPartitionGrid ==
    /\ err # "ValueError"
    /\ ChunksBuilt =>
         /\ \A p \in Grid(image_width, image_height) : Occurrences(p, chunks) = 1
         /\ \A m \in 1..Len(chunks) : \A x \in 1..Len(chunks[m]) :
              chunks[m][x] \in Grid(image_width, image_height)

\* C2: whatever the order in which the chunk results arrived, the merge writes
\* every framebuffer entry exactly once (never twice on the way), and the
\* final framebuffer holds at (j, i) the colour the worker computed for (j, i).
C2_MergeOrderIndependent ==
    /\ (entry = "png" /\ pc = "merge") =>
         \A p \in Grid(image_width, image_height) :
            /\ writes[p] <= 1
            /\ (writes[p] = 1 => color_array[p] = PixelColor(p))
    /\ (entry = "png" /\ pc = "done") =>
         \A p \in Grid(image_width, image_height) :
            writes[p] = 1 /\ color_array[p] = PixelColor(p)

\* a two-worker render whose results arrived out of dispatch order was merged
C2_Witness ==
    /\ entry = "png"
    /\ pc = "done"
    /\ reordered
    /\ cpu_count = 2
    /\ \A p \in Grid(image_width, image_height) : writes[p] = 1

\* C3: through no entry point does an output file exist while some pixel of the
\* image was never computed; a render that a pixel failure aborted leaves no
\* output file of its own.
C3_NoPartialOutput ==
    \A f \in FileNames : files[f].state # "absent" => evaluated[f] = NPixels

\* C4: on the same camera and scene, with a deterministic sampler, the chunked
\* render ends with a framebuffer identical to that of the serial render.
C4_ParallelEqualsSerial ==
    (/\ entry = "png"
     /\ files["serial_png"].state = "saved"
     /\ pc \in {"done", "aborted"}
     /\ err # "pixel")
    => (pc = "done" /\ color_array = serial_array)

\* C10 as stated: exactly chunk-count chunks (never more), each of size
\* total_pixels // chunk_count, the remainder added to the last chunk.
C10_FixedChunkCount ==
    ChunksBuilt =>
        LET num_chunks == NumChunks(cpu_count)
            chunk_size == NPixels \div num_chunks
        IN  /\ Len(chunks) <= num_chunks
            /\ \A m \in 1..(Len(chunks) - 1) : Len(chunks[m]) = chunk_size
            /\ Len(chunks[Len(chunks)]) = chunk_size + (NPixels % num_chunks)

\* C10 amended: chunk_size = total_pixels // chunk_count; when it is 0 the
\* chunking raises ValueError and nothing is built; otherwise the raster-ordered
\* pixel list is cut into ceil(total_pixels / chunk_size) contiguous chunks,
\* all of size chunk_size but the last, which holds the remaining 1..chunk_size
\* pixels: chunk_count + ceil((total_pixels % chunk_count) / chunk_size)
\* chunks, never fewer than chunk_count.
C10_ChunkLayout ==
    LET num_chunks == NumChunks(cpu_count)
        chunk_size == NPixels \div num_chunks
        rest == NPixels % num_chunks
        pixels == Pixels(image_width, image_height)
    IN  /\ err = "ValueError" => chunk_size = 0
        /\ ChunksBuilt =>
             /\ chunk_size >= 1
             /\ Len(chunks) = (NPixels + chunk_size - 1) \div chunk_size
             /\ Len(chunks) = num_chunks + ((rest + chunk_size - 1) \div chunk_size)
             /\ \A m \in 1..(Len(chunks) - 1) : Len(chunks[m]) = chunk_size
             /\ Len(chunks[Len(chunks)]) = NPixels - (Len(chunks) - 1) * chunk_size
             /\ Len(chunks[Len(chunks)]) \in 1..chunk_size
             /\ \A m \in 1..Len(chunks) : \A x \in 1..Len(chunks[m]) :
                  chunks[m][x] = pixels[(m - 1) * chunk_size + x]

\* chunks of two pixels, a last chunk of one, and more chunks than the chunk count
C10_Witness ==
    /\ ChunksBuilt
    /\ Len(chunks) > NumChunks(cpu_count)
    /\ Len(chunks[1]) >= 2
    /\ Len(chunks[Len(chunks)]) < Len(chunks[1])

\* C11: when save_image_to_png has saved the image, every chunk was handed to
\* a worker, no worker is still processing one, every result was merged, and
\* every pixel of the grid was evaluated and written into the framebuffer
\* exactly once, with its colour.
C11_SaveAfterMerge ==
    files["parallel_png"].state = "saved" =>
        /\ nextTask = Len(chunks) + 1
        /\ running = {}
        /\ results = <<>>
        /\ evaluated["parallel_png"] = NPixels
        /\ \A p \in Grid(image_width, image_height) :
             writes[p] = 1 /\ color_array[p] = PixelColor(p)

\* an image of several chunks, processed by two workers out of order, was saved
C11_Witness ==
    /\ files["parallel_png"].state = "saved"
    /\ cpu_count = 2
    /\ Len(chunks) >= NumChunks(cpu_count)
    /\ reordered

(***************************************************************************)
(* Floating point.  Python floats are binary floating-point numbers; the   *)
(* model keeps their structure with a significand of MantBits bits and a   *)
(* smallest spacing of 2^-FracBits (the subnormal spacing).  A float is    *)
(* held as the integer number of 2^-FracBits it equals; every operation    *)
(* rounds its exact result to the nearest float, ties to even.             *)
(***************************************************************************)
FracBits == 10

MantBits == 6

RECURSIVE Pow2(_)
Pow2(n) == IF n = 0 THEN 1 ELSE 2 * Pow2(n - 1)

One == Pow2(FracBits)

\* the significands are the integers below Radix
Radix == Pow2(MantBits)

Abs(x) == IF x < 0 THEN -x ELSE x

Sign(x) == IF x < 0 THEN -1 ELSE IF x > 0 THEN 1 ELSE 0

\* float("inf"): above every finite float of the model
Infinity == 1073741824

RECURSIVE Ulp(_, _)
\* the spacing of the floats at magnitude m: the least power of two q >= q0
\* with m < 2^MantBits * q
Ulp(m, q) == IF m < Radix * q THEN q ELSE Ulp(m, 2 * q)

\* n / d rounded to the nearest integer, ties to even, times the spacing q
RoundQuot(n, d, q) ==
    (IF 2 * (n % d) > d \/ (2 * (n % d) = d /\ (n \div d) % 2 = 1)
     THEN (n \div d) + 1 ELSE n \div d) * q

\* the float nearest to num / den (den > 0), ties to even
RoundRat(num, den) ==
    Sign(num) * RoundQuot(Abs(num), den * Ulp(Abs(num) \div den, 1), Ulp(Abs(num) \div den, 1))

FAdd(a, b) == RoundRat(a + b, 1)

FSub(a, b) == RoundRat(a - b, 1)

FMul(a, b) == RoundRat(a * b, One)

\* a / b for b # 0 (Python raises ZeroDivisionError for b = 0)
FDiv(a, b) == IF b < 0 THEN RoundRat((-a) * One, -b) ELSE RoundRat(a * One, b)

RECURSIVE ISqrtBetween(_, _, _)
\* the largest s in lo..hi with s * s <= n
ISqrtBetween(n, lo, hi) ==
    IF lo = hi THEN lo
    ELSE LET mid == (lo + hi + 1) \div 2
         IN  IF mid * mid <= n THEN ISqrtBetween(n, mid, hi)
             ELSE ISqrtBetween(n, lo, mid - 1)

\* math.sqrt(a) for a >= 0, correctly rounded
FSqrt(a) ==
    LET t == a * One
        s == ISqrtBetween(t, 0, Min(t, 46340))
        q == Ulp(s, 1)
        m == (s \div q) * q
        d == t - m * m
        half == m * q + ((q * q) \div 4)
        up == IF q = 1 THEN d > m
              ELSE d > half \/ (d = half /\ (m \div q) % 2 = 1)
    IN  IF up THEN m + q ELSE m

(***************************************************************************)
(* vec3.py, ray.py, interval.py                                            *)
(***************************************************************************)

\* Vec3.from_xyz of three integers
V(x, y, z) == <<x * One, y * One, z * One>>

\* Vec3.__sub__
VSub(u, v) == <<FSub(u[1], v[1]), FSub(u[2], v[2]), FSub(u[3], v[3])>>

\* Vec3.__add__
VAdd(u, v) == <<FAdd(u[1], v[1]), FAdd(u[2], v[2]), FAdd(u[3], v[3])>>

\* Vec3.__mul__ by a float
VScale(v, t) == <<FMul(v[1], t), FMul(v[2], t), FMul(v[3], t)>>

\* Vec3.__truediv__: self * (1 / other)
VDiv(v, t) == VScale(v, FDiv(One, t))

\* Vec3.__neg__
VNeg(v) == <<-v[1], -v[2], -v[3]>>

\* vec3.dot
Dot(u, v) == FAdd(FAdd(FMul(u[1], v[1]), FMul(u[2], v[2])), FMul(u[3], v[3]))

\* Vec3.length_squared
LengthSquared(v) == FAdd(FAdd(FMul(v[1], v[1]), FMul(v[2], v[2])), FMul(v[3], v[3]))

\* Ray.at
RayAt(r, t) == VAdd(r.origin, VScale(r.direction, t))

\* a mutant of Surrounds: Interval.contains, the closed interval
SurroundsClosed(iv, x) == iv.min <= x /\ x <= iv.max

\* Interval.surrounds
Surrounds(iv, x) == iv.min < x /\ x < iv.max

(***************************************************************************)
(* hittable.py                                                             *)
(***************************************************************************)

\* `None`
NoRecord == [hit |-> FALSE]

\* a mutant of FaceNormal: the normal is never flipped
FaceNormalUnflipped(front_face, outward_normal) == outward_normal

\* normal = outward_normal if front_face else -outward_normal
FaceNormal(front_face, outward_normal) ==
    IF front_face THEN outward_normal ELSE VNeg(outward_normal)

\* a, h, c and the discriminant of Sphere.hit
Quadratic(s, r) ==
    LET oc == VSub(s.center, r.origin)
        a == LengthSquared(r.direction)
        h == Dot(r.direction, oc)
        c == FSub(LengthSquared(oc), FMul(s.radius, s.radius))
    IN  [a |-> a, h |-> h, c |-> c, discriminant |-> FSub(FMul(h, h), FMul(a, c))]

\* Sphere.hit, lines 64-74: the record of the root found
HitRecord(s, r, root) ==
    LET point == RayAt(r, root)
        outward_normal == VDiv(VSub(point, s.center), s.radius)
        front_face == Dot(r.direction, outward_normal) < 0
    IN  [hit |-> TRUE, p |-> point, normal |-> FaceNormal(front_face, outward_normal),
         t |-> root, material |-> s.material, front_face |-> front_face]

\* Sphere.hit
SphereHit(s, r, range) ==
    LET q == Quadratic(s, r)
    IN  IF q.discriminant < 0 THEN NoRecord
        ELSE LET sqrtd == FSqrt(q.discriminant)
                 root1 == FDiv(FSub(q.h, sqrtd), q.a)
                 root2 == FDiv(FAdd(q.h, sqrtd), q.a)
             IN  IF Surrounds(range, root1) THEN HitRecord(s, r, root1)
                 ELSE IF Surrounds(range, root2) THEN HitRecord(s, r, root2)
                 ELSE NoRecord

\* a mutant of Narrow: the interval is not narrowed
NarrowNot(range, t) == range

\* curr_range.max = closest_record.t
Narrow(range, t) == [range EXCEPT !.max = t]

RECURSIVE WorldHitLoop(_, _, _, _)
\* the loop of World.hit over the objects left, on the copy curr_range
WorldHitLoop(objects, r, curr_range, closest_record) ==
    IF objects = <<>> THEN closest_record
    ELSE LET object_record == SphereHit(Head(objects), r, curr_range)
         IN  IF object_record.hit
             THEN WorldHitLoop(Tail(objects), r, Narrow(curr_range, object_record.t),
                               object_record)
             ELSE WorldHitLoop(Tail(objects), r, curr_range, closest_record)

\* World.hit: curr_range = copy.copy(t_range)
WorldHit(objects, r, range) == WorldHitLoop(objects, r, range, NoRecord)

\* a mutant of Copy: curr_range = t_range, a second name of the caller's object
Alias(ref) == ref

\* copy.copy(t_range): a reference to a new Interval object
Copy(ref) == "copy"

RECURSIVE WorldHitRun(_, _, _, _, _)
\* the loop of World.hit on the interval objects of the heap: curr_range is a
\* reference, and curr_range.max = closest_record.t assigns to the object it
\* refers to
WorldHitRun(objects, r, heap, curr_range, closest_record) ==
    IF objects = <<>> THEN [record |-> closest_record, heap |-> heap]
    ELSE LET object_record == SphereHit(Head(objects), r, heap[curr_range])
         IN  IF object_record.hit
             THEN WorldHitRun(Tail(objects), r,
                              [heap EXCEPT ![curr_range] = Narrow(@, object_record.t)],
                              curr_range, object_record)
             ELSE WorldHitRun(Tail(objects), r, heap, curr_range, closest_record)

\* World.hit called with a reference to the caller's Interval object: what it
\* returns and the interval objects after the call; the new object of copy.copy
\* starts with the field values of t_range
WorldHitCall(objects, r, range) ==
    WorldHitRun(objects, r, [caller |-> range, copy |-> range], Copy("caller"),
                NoRecord)

(***************************************************************************)
(* The scene queries as a state machine: the scene grows by World.add, and *)
(* Sphere.hit and World.hit are called on it with a ray and an interval.   *)
(***************************************************************************)
MaxObjects == 3

\* the spheres a scene is built from (centre, radius > 0, material)
SpherePool ==
    { [center |-> V(0, 0, -1), radius |-> One \div 2, material |-> "lambertian"],
      [center |-> V(0, 0, -2), radius |-> One, material |-> "metal"],
      [center |-> V(1, 0, -2), radius |-> 2 * One, material |-> "dielectric"] }

\* rays from the camera centre; the directions are not normalised
RayPool ==
    { [origin |-> V(0, 0, 0), direction |-> d] :
        d \in {V(0, 0, -1), V(0, 0, -2), V(1, 0, -2), V(0, 0, 1)} }

\* Interval(0.001, infinity) of ray_color, and intervals whose ends are roots
RangePool ==
    { [min |-> RoundRat(One, 1000), max |-> Infinity],
      [min |-> One, max |-> Infinity],
      [min |-> One, max |-> 3 * One],
      [min |-> One \div 2, max |-> (3 * One) \div 2] }

HitIdle ==
    /\ world = <<>>
    /\ ray = [origin |-> V(0, 0, 0), direction |-> V(0, 0, -1)]
    /\ t_range = [min |-> 0, max |-> 0]
    /\ last_call = <<"new">>
    /\ record = NoRecord

\* World() and the ray and interval of the queries
QueryReady ==
    /\ world = <<>>
    /\ ray \in RayPool
    /\ t_range \in RangePool
    /\ last_call = <<"new">>
    /\ record = NoRecord

\* World.add
Add ==
    /\ Len(world) < MaxObjects
    /\ \E object \in SpherePool : world' = Append(world, object)
    /\ last_call' = <<"add">>
    /\ record' = NoRecord
    /\ UNCHANGED <<ray, t_range>>
    /\ UNCHANGED notHit

\* World.clear
Clear ==
    /\ world # <<>>
    /\ world' = <<>>
    /\ last_call' = <<"clear">>
    /\ record' = NoRecord
    /\ UNCHANGED <<ray, t_range>>
    /\ UNCHANGED notHit

\* a call of Sphere.hit on an object of the scene
CallSphereHit ==
    /\ \E i \in 1..Len(world) :
         /\ record' = SphereHit(world[i], ray, t_range)
         /\ last_call' = <<"sphere", i>>
    /\ UNCHANGED <<world, ray, t_range>>
    /\ UNCHANGED notHit

\* a call of World.hit
CallWorldHit ==
    /\ LET out == WorldHitCall(world, ray, t_range)
       IN  /\ record' = out.record
           /\ t_range' = out.heap.caller
    /\ last_call' = <<"world">>
    /\ UNCHANGED <<world, ray>>
    /\ UNCHANGED notHit

NextHit ==
    \/ Add
    \/ Clear
    \/ CallSphereHit
    \/ CallWorldHit

(***************************************************************************)
(* Properties of the scene queries.                                        *)
(***************************************************************************)

\* the hits the primitives of the scene have, each alone, inside the interval
PrimitiveHits ==
    {h \in {SphereHit(world[i], ray, t_range) : i \in 1..Len(world)} : h.hit}

\* the scene with its objects added in the order f
Reordered(f) == [i \in 1..Len(world) |-> world[f[i]]]

\* C5: World.hit returns none exactly when no primitive has a hit inside the
\* interval, and otherwise a primitive's hit whose t is the smallest among the
\* primitives' hits; every insertion order of the same objects gives that t.
C5_ClosestHit ==
    last_call = <<"world">> =>
        /\ record.hit <=> PrimitiveHits # {}
        /\ record.hit =>
             /\ record \in PrimitiveHits
             /\ \A h \in PrimitiveHits : record.t <= h.t
             /\ t_range.min < record.t /\ record.t < t_range.max
        /\ \A f \in Permutations(1..Len(world)) :
             LET other == WorldHit(Reordered(f), ray, t_range)
             IN  /\ other.hit = record.hit
                 /\ other.hit => other.t = record.t

\* three objects, all hit by the ray inside the interval, the closest added second
C5_Witness ==
    /\ last_call = <<"world">>
    /\ Len(world) = 3
    /\ record.hit
    /\ SphereHit(world[1], ray, t_range).hit
    /\ SphereHit(world[3], ray, t_range).hit
    /\ SphereHit(world[1], ray, t_range).t > record.t
    /\ SphereHit(world[3], ray, t_range).t > record.t
    /\ SphereHit(world[2], ray, t_range) = record

\* C8: the normal of every hit record Sphere.hit returns opposes the ray,
\* dot(direction, normal) <= 0, and front_face is true exactly when
\* dot(direction, (point - center) / radius) < 0.
C8_NormalOpposesRay ==
    (last_call[1] = "sphere" /\ record.hit) =>
        LET s == world[last_call[2]]
            outward_normal == VDiv(VSub(record.p, s.center), s.radius)
        IN  /\ Dot(ray.direction, record.normal) <= 0
            /\ record.front_face <=> Dot(ray.direction, outward_normal) < 0

\* a hit from inside the surface: the outward normal was flipped
C8_Witness ==
    /\ last_call[1] = "sphere"
    /\ record.hit
    /\ ~record.front_face
    /\ Dot(ray.direction, record.normal) < 0

\* C9: Sphere.hit returns none when the discriminant is negative or neither
\* root lies strictly inside (min, max); otherwise the hit at the smaller root
\* (h - sqrt(disc)) / a if that root is strictly inside, else at the larger
\* root (h + sqrt(disc)) / a; a root equal to min or max is never returned.
C9_SphereHitRoots ==
    last_call[1] = "sphere" =>
        LET q == Quadratic(world[last_call[2]], ray)
            sqrtd == FSqrt(q.discriminant)
            smaller == FDiv(FSub(q.h, sqrtd), q.a)
            larger == FDiv(FAdd(q.h, sqrtd), q.a)
            inside(x) == t_range.min < x /\ x < t_range.max
        IN  IF q.discriminant < 0 THEN ~record.hit
            ELSE /\ smaller <= larger
                 /\ (~inside(smaller) /\ ~inside(larger)) => ~record.hit
                 /\ inside(smaller) => (record.hit /\ record.t = smaller)
                 /\ (~inside(smaller) /\ inside(larger)) =>
                        (record.hit /\ record.t = larger)
                 /\ record.hit => (record.t # t_range.min /\ record.t # t_range.max)

\* the smaller root equals interval.min and is passed over for the larger root
C9_Witness ==
    /\ last_call[1] = "sphere"
    /\ record.hit
    /\ LET q == Quadratic(world[last_call[2]], ray)
       IN  /\ q.discriminant > 0
           /\ FDiv(FSub(q.h, FSqrt(q.discriminant)), q.a) = t_range.min
           /\ record.t = FDiv(FAdd(q.h, FSqrt(q.discriminant)), q.a)

\* C12: a World.hit call, whether it returns a hit or none, leaves the min and
\* max of the caller's interval object and the world's object list as they were
\* before the call.
C12_CallerIntervalKept ==
    [][last_call' = <<"world">> => (t_range' = t_range /\ world' = world)]_vars

\* World.hit returned a hit closer than the interval's max from a scene of
\* several objects: the query narrowed its interval
C12_Witness ==
    /\ last_call = <<"world">>
    /\ Len(world) >= 2
    /\ record.hit
    /\ record.t < t_range.max
    /\ record = WorldHit(world, ray, t_range)

(***************************************************************************)
(* Camera.ray_color.  A frame is a call of ray_color with its depth         *)
(* argument; `via` is the material whose scatter produced the frame's ray    *)
(* ("camera" for the ray of get_ray).  What the scene and the materials      *)
(* answer is not fixed by ray_color: every answer is explored.               *)
(***************************************************************************)

\* the largest max_depth a camera is configured with
MaxDepth == 3

\* Camera.__init__ stores max_depth as given: any int
DepthPool == (-2)..MaxDepth

\* the interpreter's limit on nested calls, above every configured depth
RecursionLimit == MaxDepth + 3

Materials == {"lambertian", "metal", "dielectric"}

NoReturn == [depth |-> 0, color |-> "none", queried |-> FALSE]

ColorIdle ==
    /\ max_depth = 0
    /\ stack = <<>>
    /\ queries = 0
    /\ color_pc = "idle"
    /\ returned = NoReturn

\* a constructed camera, no evaluation started
ColorReady ==
    /\ max_depth \in DepthPool
    /\ stack = <<>>
    /\ queries = 0
    /\ color_pc = "ready"
    /\ returned = NoReturn

Top == stack[Len(stack)]

\* a frame returns `color` to its caller
Return(color, queried) ==
    /\ returned' = [depth |-> Top.depth, color |-> color, queried |-> queried]
    /\ stack' = SubSeq(stack, 1, Len(stack) - 1)
    /\ color_pc' = IF Len(stack) = 1 THEN "done" ELSE "unwinding"

\* the render loops: self.ray_color(r, world, self.max_depth)
RenderCallsRayColor ==
    /\ color_pc = "ready"
    /\ stack' = <<[depth |-> max_depth, via |-> "camera"]>>
    /\ color_pc' = "running"
    /\ UNCHANGED <<max_depth, queries, returned>>
    /\ UNCHANGED notColor

\* ray_color, lines 148-149: depth == 0 returns black
RayColorDepthZero ==
    /\ color_pc = "running"
    /\ Top.depth = 0
    /\ Return("black", FALSE)
    /\ UNCHANGED <<max_depth, queries>>
    /\ UNCHANGED notColor

\* ray_color, lines 150-165: the scene query and what follows it, up to the
\* nested call
RayColorQuery ==
    /\ color_pc = "running"
    /\ Top.depth # 0
    /\ queries' = queries + 1
    /\ \E outcome \in {"miss", "absorbed"} \cup Materials :
         CASE outcome = "miss" -> Return("sky", TRUE)
           [] outcome = "absorbed" -> Return("black", TRUE)
           [] OTHER ->
                IF Len(stack) < RecursionLimit
                THEN /\ stack' = Append(stack, [depth |-> Top.depth - 1,
                                                via |-> outcome])
                     /\ UNCHANGED <<color_pc, returned>>
                ELSE /\ stack' = <<>>
                     /\ color_pc' = "RecursionError"
                     /\ UNCHANGED returned
    /\ UNCHANGED max_depth
    /\ UNCHANGED notColor

\* ray_color, line 156: the nested call returned; attenuation * its colour
RayColorAttenuate ==
    /\ color_pc = "unwinding"
    /\ Return("attenuated", TRUE)
    /\ UNCHANGED <<max_depth, queries>>
    /\ UNCHANGED notColor

NextColor ==
    \/ RenderCallsRayColor
    \/ RayColorDepthZero
    \/ RayColorQuery
    \/ RayColorAttenuate

\* C6: an evaluation started with the configured max_depth ends without
\* exhausting the call stack, performs at most max_depth scene queries, never
\* has a depth argument below 0, and a call with depth 0 returns black without
\* a scene query.
C6_DepthBounded ==
    color_pc \in {"running", "unwinding", "done", "RecursionError"} =>
        /\ color_pc # "RecursionError"
        /\ queries <= max_depth
        /\ \A i \in 1..Len(stack) : stack[i].depth >= 0
        /\ (returned.color # "none" /\ returned.depth = 0) =>
               (returned.color = "black" /\ ~returned.queried)

(***************************************************************************)
(* The constructors: Sphere.__post_init__, Metal.__post_init__ and           *)
(* Camera.__init__.  A call that raises constructs nothing: the object        *)
(* constructed before stays.                                                  *)
(***************************************************************************)

None == [made |-> FALSE]

\* vec3.cross
Cross(u, v) ==
    <<FSub(FMul(u[2], v[3]), FMul(u[3], v[2])),
      FSub(FMul(u[3], v[1]), FMul(u[1], v[3])),
      FSub(FMul(u[1], v[2]), FMul(u[2], v[1]))>>

\* Vec3.length
Length(v) == FSqrt(LengthSquared(v))

\* vec3.unit_vector, for a vector whose length is not 0.0
UnitVector(v) == VDiv(v, Length(v))

\* radii: negative, zero, the least positive float, a half, one
RadiusPool == {-One, 0, 1, One \div 2, One}

\* fuzz: the floats next to 0 and 1 on either side, and between
FuzzPool == {-1, 0, One \div 2, One, One + 2 * (One \div Radix)}

LookFromPool == {V(0, 0, 0), V(0, 0, 1), V(0, 2, 0), V(9, 6, 3), V(13, 2, 3)}

LookAtPool == {V(0, 0, 0), V(0, 0, -1)}

VupPool == {V(0, 1, 0), V(0, 0, 2), V(-3, -2, -1)}

CtorIdle ==
    /\ sphere = None
    /\ metal = None
    /\ camera = None
    /\ raised = "idle"

\* nothing constructed yet
CtorReady ==
    /\ sphere = None
    /\ metal = None
    /\ camera = None
    /\ raised = ""

\* Sphere(center, radius, material)
NewSphere ==
    /\ \E radius \in RadiusPool :
         IF radius <= 0
         THEN /\ raised' = "ValueError"
              /\ UNCHANGED sphere
         ELSE /\ raised' = ""
              /\ sphere' = [made |-> TRUE, radius |-> radius]
    /\ UNCHANGED <<metal, camera>>
    /\ UNCHANGED notCtor

\* Metal(albedo, fuzz)
NewMetal ==
    /\ \E fuzz \in FuzzPool :
         IF fuzz < 0 \/ fuzz > One
         THEN /\ raised' = "ValueError"
              /\ UNCHANGED metal
         ELSE /\ raised' = ""
              /\ metal' = [made |-> TRUE, fuzz |-> fuzz]
    /\ UNCHANGED <<sphere, camera>>
    /\ UNCHANGED notCtor

\* Camera(lookfrom, lookat, vup): 1 / length raises ZeroDivisionError for a
\* length of 0.0, in unit_vector(lookfrom - lookat) or in
\* unit_vector(cross(vup, w)); nothing else checks the basis
NewCamera ==
    /\ \E lookfrom \in LookFromPool, lookat \in LookAtPool, vup \in VupPool :
         IF Length(VSub(lookfrom, lookat)) = 0
         THEN /\ raised' = "ZeroDivisionError"
              /\ UNCHANGED camera
         ELSE IF Length(Cross(vup, UnitVector(VSub(lookfrom, lookat)))) = 0
         THEN /\ raised' = "ZeroDivisionError"
              /\ UNCHANGED camera
         ELSE /\ raised' = ""
              /\ camera' = [made |-> TRUE, lookfrom |-> lookfrom,
                            lookat |-> lookat, vup |-> vup,
                            w |-> UnitVector(VSub(lookfrom, lookat)),
                            u |-> UnitVector(Cross(vup,
                                     UnitVector(VSub(lookfrom, lookat))))]
    /\ UNCHANGED <<sphere, metal>>
    /\ UNCHANGED notCtor

NextCtor ==
    \/ NewSphere
    \/ NewMetal
    \/ NewCamera

\* u and v are collinear, in exact arithmetic
Collinear(u, v) ==
    /\ u[2] * v[3] = u[3] * v[2]
    /\ u[3] * v[1] = u[1] * v[3]
    /\ u[1] * v[2] = u[2] * v[1]

\* C7: no Sphere exists with radius <= 0, no Metal with fuzz outside [0, 1],
\* and no Camera with lookfrom equal to lookat or with vup collinear with the
\* view direction lookfrom - lookat: their construction raised.
C7_FatalAtConstruction ==
    /\ sphere.made => sphere.radius > 0
    /\ metal.made => (0 <= metal.fuzz /\ metal.fuzz <= One)
    /\ camera.made =>
         /\ camera.lookfrom # camera.lookat
         /\ ~Collinear(camera.vup,
                       <<camera.lookfrom[1] - camera.lookat[1],
                         camera.lookfrom[2] - camera.lookat[2],
                         camera.lookfrom[3] - camera.lookat[3]>>)

(***************************************************************************)
(* Specifications.                                                         *)
(***************************************************************************)
RenderIdle ==
    /\ entry = "none"
    /\ image_width = 1
    /\ image_height = 1
    /\ cpu_count = 1
    /\ pc = "idle"
    /\ err = ""
    /\ k = 0
    /\ chunks = <<>>
    /\ nextTask = 1
    /\ running = {}
    /\ results = <<>>
    /\ color_array = Zeros(1, 1)
    /\ serial_array = Zeros(1, 1)
    /\ writes = Zeros(1, 1)
    /\ reordered = FALSE
    /\ evaluated = NoneEvaluated
    /\ files = NoFiles

InitRender ==
    /\ CameraReady
    /\ HitIdle
    /\ ColorIdle
    /\ CtorIdle

SpecRender == InitRender /\ [][NextRender]_vars

InitHit ==
    /\ QueryReady
    /\ RenderIdle
    /\ ColorIdle
    /\ CtorIdle

SpecHit == InitHit /\ [][NextHit]_vars

InitColor ==
    /\ ColorReady
    /\ RenderIdle
    /\ HitIdle
    /\ CtorIdle

SpecColor == InitColor /\ [][NextColor]_vars

InitCtor ==
    /\ CtorReady
    /\ RenderIdle
    /\ HitIdle
    /\ ColorIdle

SpecCtor == InitCtor /\ [][NextCtor]_vars

====
